---- MODULE Spec2Model ----
(***************************************************************************)
(* A model of the search pipeline of sonewarch: the domain-local crawler   *)
(* (app/core/crawler.py), the per-domain token bucket                      *)
(* (app/services/rate_limiter.py), the state tracker                       *)
(* (app/services/state_manager.py), the result cache                       *)
(* (app/services/cache_service.py) and the orchestrator                    *)
(* (app/core/search_engine.py).                                            *)
(*                                                                         *)
(* Scheduling is asyncio's: code between two suspension points runs        *)
(* atomically, so every action below is one such stretch of code.          *)
(*                                                                         *)
(* The collaborators are taken to work as the code uses them: the backing  *)
(* store answers each awaited single-key call atomically, the HTTP session *)
(* returns a page or nothing, and every name a file uses resolves.  What   *)
(* the repository's own code does with its own data is modelled as         *)
(* written: the keys to_dict adds and the dataclass constructor refuses,   *)
(* the dict a cache hit hands to asyncio.gather, the dataclass handed to   *)
(* json.dumps.                                                             *)
(*                                                                         *)
(* SearchEngine calls four StateManager methods that no file defines       *)
(* (update_total_urls, increment_processed_urls, complete_search,          *)
(* fail_search); they are modelled from section 4.7 of the specification.  *)
(***************************************************************************)
EXTENDS Integers, FiniteSets, Sequences, TLC

(***************************************************************************)
(* Bounds of the model.                                                    *)
(***************************************************************************)
\* largest max_pages a call is given (the smallest is -1)
MaxPagesBound == 2

\* clock ticks in the time the bucket takes to refill one token
SubSteps == 2

\* the clock stops after this many ticks
MaxTime == 4

\* fetch_page calls made on the one domain
MaxCalls == 7

\* largest relevance of a SearchResult (the smallest is 1)
MaxRelevance == 2

\* largest count the state tracker is driven to through its API
MaxCounter == 2

\* largest number of matches of the search term in the text of a page
MaxMatches == 3

\* largest residual TTL of a cache entry, in seconds
MaxTtl == 2

\* largest number of messages the model lets one progress stream send
MaxEmits == 2

\* largest max_size_mb monitor_size is given (the smallest is 0)
MaxLimitMb == 1

(***************************************************************************)
(* URLs.  A URL is its netloc and its path; urlparse(url).netloc is the    *)
(* netloc field, compared by the code as a raw string.                     *)
(***************************************************************************)
Url(n, p) == [netloc |-> n, path |-> p]

UrlRoot == Url("ex.test", "/")
UrlA == Url("ex.test", "/a")
UrlCase == Url("EX.TEST", "/c")
UrlOther == Url("other.test", "/b")

URLs == {UrlRoot, UrlA, UrlCase, UrlOther}

\* The pages whose links vary from one link graph to the next; the pages of
\* the other two URLs hold no link.
LinkedPages == {UrlRoot, UrlA}

LinkGraphs ==
    {[u \in URLs |-> IF u \in LinkedPages THEN g[u] ELSE {}] :
        g \in [LinkedPages -> SUBSET URLs]}

\* str.lower() on the netlocs of the model
Lower(n) == IF n = "EX.TEST" THEN "ex.test" ELSE n

\* the host of a URL, compared case-insensitively
Host(u) == Lower(u.netloc)

PageBudgets == (-1)..MaxPagesBound

\* The two callers of the one Crawler of the one SearchEngine.
Calls == {"s1", "s2"}

NoUrl == [netloc |-> "", path |-> ""]

\* A start_url on which urlparse raises ValueError ("http://[": Invalid IPv6
\* URL).  No page links to it.
UrlInvalid == Url("[", "")

\* urlparse(url) returns
Parses(url) == url # UrlInvalid

Seeds == URLs \cup {UrlInvalid}

VARIABLES
    graph,        \* the web: the links of each page
    seen_urls,    \* Crawler.seen_urls, one set for the whole crawler
    cpc,          \* per call: "idle", "fetching" (suspended in fetch_page), "done",
                  \* "raised", "cancelled"
    cur,          \* per call: the url whose fetch_page is awaited
    to_visit,     \* per call: the local to_visit
    base_domain,  \* per call: the local base_domain
    max_pages,    \* per call: the argument max_pages
    start_url,    \* per call: the argument start_url
    own,          \* per call (history): the urls this call added to seen_urls
    ret,          \* per call (history): seen_urls as it was when the call returned
    extracted,    \* per call (history): the pages whose links the call extracted
    now,          \* datetime.now(), in ticks
    tokens,       \* domains[d]['tokens'], in units of 1/SubSteps token
    last_update,  \* domains[d]['last_update'], in ticks
    lock,         \* domains[d]['lock']: "free", or "held" by an acquire asleep in its loop
    wake,         \* the tick at which the sleep of the acquire holding the lock ends
    waiting,      \* acquire calls suspended on the lock
    inflight,     \* fetch_page calls between their acquire and their release
    calls,        \* fetch_page calls made so far
    acquired,     \* (history) per completed acquire: the tick, the tokens found, the tokens left
    state_store,  \* the backing store under "search_state:": search_id -> stored snapshot
    outcome,      \* (history) how the last state tracker call ended: "returned" or "raised"
    cache,        \* the backing store under "search_cache:": key -> stored text
    expected,     \* (history) per key: the value last put, "invalidated", or "unknown"
    got,          \* (history) the last get_result call: its key and what it returned
    spc,          \* where SearchEngine.search is
    order,        \* the order in which `for url in urls` went through urls
    tpc,          \* per url: where its process_url task is
    tres,         \* per url: what its task returned: -1 not yet, 0 None, else the relevance
    counted,      \* (history) the urls whose task's increment_processed_urls has returned
    returned,     \* the list search returned
    faults,       \* (history) the calls of the search on which the backing store raised
    meta,         \* per cache key: the residual TTL and the length of the stored text
    ev,           \* the call of monitor_size: where it is, its limit, its sorted keys
    conn,         \* per websocket: where handle_connection is, the search_id, the
                  \* snapshot it sends, whether the peer is there, (history) the
                  \* messages handed to ws.send
    active_connections,  \* WebSocketManager.active_connections
    response,     \* (history) the last answer of the /results route
    rk,           \* the page the ranker is given and what calculate_relevance made of it
    req,          \* per POST /search request: where its search task is, the
                  \* search_id the route returned, (history) what the key held when
                  \* init_search wrote it, and the last answer of /status for the id
    kc,           \* (history) the result last stored for each (url, search_term)
                  \* pair, and the pair and the answer of the last get_result
    bc,           \* the call of close_all_connections or broadcast_to_search that
                  \* runs: where it is, its search_id, the set its loop iterates as
                  \* it was when the loop began, the sockets still to come,
                  \* (history) the exception that ended the last call
    fp            \* per fetch_page call: where it is, how it ended, (history) how many
                  \* times it was called and how many times it called release

crawlVars ==
    <<graph, seen_urls, cpc, cur, to_visit, base_domain, max_pages, start_url,
      own, ret, extracted>>

rlVars == <<now, tokens, last_update, lock, wake, waiting, inflight, calls, acquired>>

trackerVars == <<state_store, outcome>>

cacheVars == <<cache, expected, got>>

searchVars == <<spc, order, tpc, tres, counted, returned, faults>>

rankVars == <<rk>>

evictVars == <<meta, ev>>

webVars == <<conn, active_connections, response>>

fetchVars == <<fp>>

startVars == <<req>>

keyVars == <<kc>>

sweepVars == <<bc>>

laterVars == <<fetchVars, startVars, keyVars, sweepVars>>

otherVars == <<rankVars, evictVars, webVars, laterVars>>

vars == <<crawlVars, rlVars, trackerVars, cacheVars, searchVars, otherVars>>

(***************************************************************************)
(* Crawler                                                                 *)
(***************************************************************************)
\* Crawler.__init__, and no call made yet
CrawlerInit ==
    /\ seen_urls = {}
    /\ cpc = [c \in Calls |-> "idle"]
    /\ cur = [c \in Calls |-> NoUrl]
    /\ to_visit = [c \in Calls |-> {}]
    /\ base_domain = [c \in Calls |-> ""]
    /\ max_pages = [c \in Calls |-> 0]
    /\ start_url = [c \in Calls |-> NoUrl]
    /\ own = [c \in Calls |-> {}]
    /\ ret = [c \in Calls |-> {}]
    /\ extracted = [c \in Calls |-> {}]

\* extract_urls: the links of the page whose netloc is base_domain
SameDomainNoFilter(url, domain) == TRUE

SameDomain(url, domain) == url.netloc = domain

extract_urls(content, domain) == {u \in content : SameDomain(u, domain)}

\* the loop condition of get_urls
LoopGuardOffByOne(pending, seen, budget) ==
    pending # {} /\ Cardinality(seen) <= budget

LoopGuard(pending, seen, budget) ==
    pending # {} /\ Cardinality(seen) < budget

\* a loop that pops a url and awaits its fetch without adding it to seen_urls
RunLoopForgets(c, seen, pending) ==
    \/ /\ ~LoopGuard(pending, seen, max_pages'[c])
       /\ seen_urls' = seen
       /\ to_visit' = [to_visit EXCEPT ![c] = pending]
       /\ cpc' = [cpc EXCEPT ![c] = "done"]
       /\ cur' = [cur EXCEPT ![c] = NoUrl]
       /\ ret' = [ret EXCEPT ![c] = seen]
       /\ own' = own
    \/ /\ LoopGuard(pending, seen, max_pages'[c])
       /\ \E url \in pending :
               /\ seen_urls' = seen
               /\ to_visit' = [to_visit EXCEPT ![c] = pending \ {url}]
               /\ cpc' = [cpc EXCEPT ![c] = "fetching"]
               /\ cur' = [cur EXCEPT ![c] = url]
               /\ ret' = ret
               /\ own' = [own EXCEPT ![c] = @ \cup {url}]

\* The while loop of get_urls from its head to the next suspension: the call
\* pops urls it has seen (continue) and then either leaves the loop, which
\* returns self.seen_urls, or pops a new url, adds it and awaits fetch_page.
RunLoop(c, seen, pending) ==
    \/ /\ ~LoopGuard(pending, seen, max_pages'[c])
       /\ seen_urls' = seen
       /\ to_visit' = [to_visit EXCEPT ![c] = pending]
       /\ cpc' = [cpc EXCEPT ![c] = "done"]
       /\ cur' = [cur EXCEPT ![c] = NoUrl]
       /\ ret' = [ret EXCEPT ![c] = seen]
       /\ own' = own
    \/ /\ LoopGuard(pending, seen, max_pages'[c])
       /\ \E skipped \in SUBSET (pending \cap seen) :
            LET rest == pending \ skipped IN
            \/ /\ rest = {}
               /\ seen_urls' = seen
               /\ to_visit' = [to_visit EXCEPT ![c] = {}]
               /\ cpc' = [cpc EXCEPT ![c] = "done"]
               /\ cur' = [cur EXCEPT ![c] = NoUrl]
               /\ ret' = [ret EXCEPT ![c] = seen]
               /\ own' = own
            \/ \E url \in rest \ seen :
               /\ seen_urls' = seen \cup {url}
               /\ to_visit' = [to_visit EXCEPT ![c] = rest \ {url}]
               /\ cpc' = [cpc EXCEPT ![c] = "fetching"]
               /\ cur' = [cur EXCEPT ![c] = url]
               /\ ret' = ret
               /\ own' = [own EXCEPT ![c] = @ \cup {url}]

\* seen_urls.clear() at the head of get_urls
Cleared(seen) == {}

\* get_urls(start_url, max_pages) up to its first suspension, or up to the
\* ValueError of urlparse(start_url), which comes after the clear()
get_urls_called(c, seed, budget) ==
    /\ cpc[c] = "idle"
    /\ start_url' = [start_url EXCEPT ![c] = seed]
    /\ max_pages' = [max_pages EXCEPT ![c] = budget]
    /\ UNCHANGED <<graph, extracted>>
    /\ IF Parses(seed)
       THEN /\ base_domain' = [base_domain EXCEPT ![c] = seed.netloc]
            /\ RunLoop(c, Cleared(seen_urls), {seed})
       ELSE /\ seen_urls' = Cleared(seen_urls)
            /\ to_visit' = [to_visit EXCEPT ![c] = {seed}]
            /\ cpc' = [cpc EXCEPT ![c] = "raised"]
            /\ UNCHANGED <<base_domain, cur, ret, own>>

get_urls(c, seed, budget) ==
    /\ get_urls_called(c, seed, budget)
    /\ UNCHANGED <<rlVars, trackerVars, cacheVars, searchVars, otherVars>>

\* fetch_page(url) returns and get_urls goes on to its next suspension.  The
\* first branch is `content` falsy (a status other than 200, an exception, an
\* empty body) or a page without links; the second a page with links.
fetch_returns(c) ==
    /\ cpc[c] = "fetching"
    /\ UNCHANGED <<graph, start_url, max_pages, base_domain>>
    /\ UNCHANGED <<rlVars, trackerVars, cacheVars, searchVars, otherVars>>
    /\ \/ /\ extracted' = extracted
          /\ RunLoop(c, seen_urls, to_visit[c])
       \/ /\ graph[cur[c]] # {}
          /\ extracted' = [extracted EXCEPT ![c] = @ \cup {cur[c]}]
          /\ RunLoop(c, seen_urls,
                to_visit[c] \cup (extract_urls(graph[cur[c]], base_domain[c]) \ seen_urls))

(***************************************************************************)
(* Rate limiter: the bucket of one domain.  A tick is 1/TicksPerSecond     *)
(* second, in which the bucket refills by one unit of 1/SubSteps token, so *)
(* that time_passed * requests_per_second is exact.                        *)
(***************************************************************************)
requests_per_second == 2

burst_size == 5

TicksPerSecond == requests_per_second * SubSteps

\* one token, and the burst, in units
One == SubSteps

Burst == burst_size * One

\* asyncio.sleep(1.0 / requests_per_second), in ticks
SleepTicks == TicksPerSecond \div requests_per_second

\* RateLimiter.__init__ and the defaultdict factory: a full bucket
RateLimiterInit ==
    /\ now = 0
    /\ tokens = Burst
    /\ last_update = 0
    /\ lock = "free"
    /\ wake = 0
    /\ waiting = 0
    /\ inflight = 0
    /\ calls = 0
    /\ acquired = <<>>

Min(a, b) == IF a <= b THEN a ELSE b

\* _refill_tokens: the tokens after the refill at the current time
Refilled == Min(tokens + ((now - last_update) * requests_per_second * One) \div TicksPerSecond, Burst)

\* the guard of the waiting loop of acquire: `while tokens <= 0`
MustWait(t) == t <= 0

\* acquire from the refill on, the lock taken: the loop sleeps holding the
\* lock, or the call takes a token, leaves the lock and returns to
\* fetch_page, which goes on to the HTTP request.
AcquireBody ==
    /\ last_update' = now
    /\ IF MustWait(Refilled)
       THEN /\ tokens' = Refilled
            /\ lock' = "held"
            /\ wake' = now + SleepTicks
            /\ UNCHANGED <<inflight, acquired>>
       ELSE /\ tokens' = Refilled - One
            /\ lock' = "free"
            /\ wake' = 0
            /\ inflight' = inflight + 1
            /\ acquired' = Append(acquired,
                    [at |-> now, found |-> Refilled, left |-> Refilled - One])

\* fetch_page calls acquire: the call takes the free lock and runs on, or
\* suspends on the lock.
acquire ==
    /\ calls < MaxCalls
    /\ calls' = calls + 1
    /\ now' = now
    /\ IF lock = "free"
       THEN waiting' = waiting /\ AcquireBody
       ELSE waiting' = waiting + 1
            /\ UNCHANGED <<tokens, last_update, lock, wake, inflight, acquired>>
    /\ UNCHANGED <<crawlVars, trackerVars, cacheVars, searchVars, otherVars>>

\* a call suspended on the lock gets it
lock_acquired ==
    /\ lock = "free"
    /\ waiting > 0
    /\ waiting' = waiting - 1
    /\ AcquireBody
    /\ UNCHANGED <<now, calls>>
    /\ UNCHANGED <<crawlVars, trackerVars, cacheVars, searchVars, otherVars>>

\* the sleep of the waiting loop ends: refill and test again
sleep_returns ==
    /\ lock = "held"
    /\ now >= wake
    /\ AcquireBody
    /\ UNCHANGED <<now, calls, waiting>>
    /\ UNCHANGED <<crawlVars, trackerVars, cacheVars, searchVars, otherVars>>

\* release, from the finally block of fetch_page
Released(t) == IF t < Burst THEN t + One ELSE t

release ==
    /\ inflight > 0
    /\ inflight' = inflight - 1
    /\ tokens' = Released(tokens)
    /\ UNCHANGED <<now, last_update, lock, wake, waiting, calls, acquired>>
    /\ UNCHANGED <<crawlVars, trackerVars, cacheVars, searchVars, otherVars>>

\* time passes
Tick ==
    /\ now < MaxTime
    /\ now' = now + 1
    /\ UNCHANGED <<tokens, last_update, lock, wake, waiting, inflight, calls, acquired>>
    /\ UNCHANGED <<crawlVars, trackerVars, cacheVars, searchVars, otherVars>>

(***************************************************************************)
(* fetch_page (app/core/crawler.py): one call from its acquire to its      *)
(* finally, on the bucket of one domain.  Other calls of fetch_page may be *)
(* in their request meanwhile; they are counted in inflight.               *)
(***************************************************************************)
Fetches == {"f1", "f2"}

\* how a call of fetch_page ended
FetchPaths ==
    {"200", "status", "error", "acquire_failed", "cancelled_in_acquire", "cancelled"}

FetchIdle == [pc |-> "idle", path |-> "none", called |-> 0, released |-> 0]

FetchInit == fp = [f \in Fetches |-> FetchIdle]

FetchOthers ==
    <<crawlVars, trackerVars, cacheVars, searchVars, rankVars, evictVars, webVars, startVars,
      keyVars, sweepVars>>

\* the calls of fetch_page the model follows that are in their request
InRequest == {f \in Fetches : fp[f].pc = "request"}

\* acquire with the lock taken, for call f: asleep in the loop, or through
\* (the body of acquire as in AcquireBody; the history of the acquires is not
\* kept here)
AcquireFor(f, called) ==
    /\ last_update' = now
    /\ IF MustWait(Refilled)
       THEN /\ tokens' = Refilled
            /\ lock' = "held"
            /\ wake' = now + SleepTicks
            /\ inflight' = inflight
       ELSE /\ tokens' = Refilled - One
            /\ lock' = "free"
            /\ wake' = 0
            /\ inflight' = inflight + 1
    /\ acquired' = acquired
    /\ fp' = [fp EXCEPT ![f].called = called,
                        ![f].pc = IF MustWait(Refilled) THEN "sleeping" ELSE "request"]

\* a handler that runs release only where `except Exception` would
ExceptOnly(f, path) ==
    /\ tokens' = IF path \in {"cancelled_in_acquire", "cancelled"}
                 THEN tokens ELSE Released(tokens)
    /\ fp' = [fp EXCEPT ![f].pc = "idle", ![f].path = path,
                        ![f].released = IF path \in {"cancelled_in_acquire", "cancelled"}
                                        THEN @ ELSE @ + 1]

\* the finally of fetch_page: release(urlparse(url).netloc), whatever ended
\* the try
Finally(f, path) ==
    /\ tokens' = Released(tokens)
    /\ fp' = [fp EXCEPT ![f].pc = "idle", ![f].path = path, ![f].released = @ + 1]

\* fetch_page(url) up to its first suspension: in acquire on the lock, in the
\* sleep of acquire, or in the request
fetch_page(f) ==
    /\ fp[f].pc = "idle"
    /\ fp[f].called < MaxCounter
    /\ calls' = calls + 1
    /\ now' = now
    /\ IF lock = "free"
       THEN waiting' = waiting /\ AcquireFor(f, fp[f].called + 1)
       ELSE /\ waiting' = waiting + 1
            /\ fp' = [fp EXCEPT ![f].called = @ + 1, ![f].pc = "lock_wait"]
            /\ UNCHANGED <<tokens, last_update, lock, wake, inflight, acquired>>
    /\ UNCHANGED FetchOthers

\* the call suspended on the lock gets it
fetch_lock_acquired(f) ==
    /\ fp[f].pc = "lock_wait"
    /\ lock = "free"
    /\ waiting' = waiting - 1
    /\ AcquireFor(f, fp[f].called)
    /\ UNCHANGED <<now, calls>>
    /\ UNCHANGED FetchOthers

\* the sleep of the waiting loop of its acquire ends
fetch_sleep_returns(f) ==
    /\ fp[f].pc = "sleeping"
    /\ now >= wake
    /\ AcquireFor(f, fp[f].called)
    /\ UNCHANGED <<now, calls, waiting>>
    /\ UNCHANGED FetchOthers

\* the request ends: status 200 and the text, another status, or an
\* exception of the transport, which `except Exception` turns into None
fetch_responds(f, path) ==
    /\ fp[f].pc = "request"
    /\ inflight' = inflight - 1
    /\ Finally(f, path)
    /\ UNCHANGED <<now, last_update, lock, wake, waiting, calls, acquired>>
    /\ UNCHANGED FetchOthers

\* the call leaves its acquire without a token: an exception, which `except
\* Exception` turns into None, or the CancelledError of its task, which
\* passes the except.  `async with` gives the lock back.
fetch_leaves_acquire(f, path) ==
    /\ fp[f].pc \in {"lock_wait", "sleeping"}
    /\ IF fp[f].pc = "sleeping"
       THEN lock' = "free" /\ wake' = 0 /\ waiting' = waiting
       ELSE waiting' = waiting - 1 /\ UNCHANGED <<lock, wake>>
    /\ Finally(f, path)
    /\ UNCHANGED <<now, last_update, inflight, calls, acquired>>
    /\ UNCHANGED FetchOthers

\* the task of the call is cancelled during the request
fetch_cancelled(f) ==
    /\ fp[f].pc = "request"
    /\ inflight' = inflight - 1
    /\ Finally(f, "cancelled")
    /\ UNCHANGED <<now, last_update, lock, wake, waiting, calls, acquired>>
    /\ UNCHANGED FetchOthers

\* one of the other calls in flight ends and releases
other_fetch_ends ==
    /\ inflight > Cardinality(InRequest)
    /\ release

FetchPage == \E f \in Fetches : fetch_page(f)

FetchLockAcquired == \E f \in Fetches : fetch_lock_acquired(f)

FetchSleepReturns == \E f \in Fetches : fetch_sleep_returns(f)

FetchResponds == \E f \in Fetches, path \in {"200", "status", "error"} : fetch_responds(f, path)

FetchLeavesAcquire ==
    \E f \in Fetches, path \in {"acquire_failed", "cancelled_in_acquire"} :
        fetch_leaves_acquire(f, path)

FetchCancelled == \E f \in Fetches : fetch_cancelled(f)

(***************************************************************************)
(* State tracker.  The backing store holds, per search_id, the dict that   *)
(* SearchState.to_dict made; a store call is one atomic single-key         *)
(* operation.  Times are not modelled: every time field is 0.              *)
(***************************************************************************)
SearchIds == {"1", "2"}

\* the fields of the dataclass SearchState
SearchStateFields ==
    {"total_urls", "processed_urls", "found_results", "current_status",
     "start_time", "error", "last_update"}

\* SearchState(start_time=time.time(), last_update=time.time())
NewSearchState ==
    [total_urls |-> 0, processed_urls |-> 0, found_results |-> 0,
     current_status |-> "waiting", start_time |-> 0, error |-> "None",
     last_update |-> 0]

\* calculate_progress, rounded down to a whole percent
calculate_progress(st) ==
    IF st.total_urls = 0 THEN 0 ELSE (st.processed_urls * 100) \div st.total_urls

\* to_dict: asdict plus the two derived keys
to_dict(st) ==
    [k \in SearchStateFields \cup {"progress", "elapsed_time"} |->
        IF k = "progress" THEN calculate_progress(st)
        ELSE IF k = "elapsed_time" THEN 0
        ELSE st[k]]

\* SearchState(**d): the dataclass constructor takes its own fields only and
\* raises TypeError on any other keyword
ConstructorAccepts(d) == DOMAIN d \subseteq SearchStateFields

\* _save_state: setex of the dict of the state
SavedStore(id, st) == (id :> to_dict(st)) @@ state_store

\* get_state: the stored dict, None when the key is absent
Present(id) == id \in DOMAIN state_store

\* the setattr loop of update_state, and last_update
WithFields(d, kwargs) ==
    [k \in DOMAIN d |->
        IF k \in DOMAIN kwargs /\ k \in SearchStateFields THEN kwargs[k]
        ELSE IF k = "last_update" THEN 0
        ELSE d[k]]

\* init_search(search_id): a fresh state is saved, whatever the key held
InitSearchStore(id) == SavedStore(id, NewSearchState)

init_search(id) ==
    /\ state_store' = InitSearchStore(id)
    /\ outcome' = "returned"

\* update_state(search_id, **kwargs): nothing on an absent key; on a stored
\* dict the constructor is given the dict to_dict made
update_state(id, kwargs) ==
    IF ~Present(id)
    THEN /\ state_store' = state_store
         /\ outcome' = "returned"
    ELSE IF ~ConstructorAccepts(state_store[id])
    THEN /\ state_store' = state_store
         /\ outcome' = "raised"
    ELSE /\ state_store' = SavedStore(id, WithFields(state_store[id], kwargs))
         /\ outcome' = "returned"

mark_completed(id) == update_state(id, [current_status |-> "completed", last_update |-> 0])

mark_error(id, error) ==
    update_state(id, [current_status |-> "error", error |-> error, last_update |-> 0])

\* The four methods SearchEngine calls and StateManager does not define, as
\* section 4.7 of the specification words them: atomic, and a terminal status
\* is kept.
Terminal(d) == d.current_status \in {"completed", "error"}

Refreshed(d) == [d EXCEPT !.progress = calculate_progress(d), !.last_update = 0]

Mutated(id, d) == (id :> Refreshed(d)) @@ state_store

update_total_urls(id, n) ==
    /\ outcome' = "returned"
    /\ state_store' =
        IF ~Present(id) THEN state_store
        ELSE Mutated(id, [state_store[id] EXCEPT
                !.total_urls = n,
                !.current_status = IF Terminal(state_store[id]) THEN @ ELSE "searching"])

\* an increment written from a value read before the other increments
increment_from_stale_read(id) ==
    /\ outcome' = "returned"
    /\ state_store' =
        IF ~Present(id) THEN state_store
        ELSE Mutated(id, [state_store[id] EXCEPT !.processed_urls = 1])

\* an increment that counts every processed url as a found result as well
increment_processed_and_found(id) ==
    /\ outcome' = "returned"
    /\ state_store' =
        IF ~Present(id) THEN state_store
        ELSE Mutated(id, [state_store[id] EXCEPT !.processed_urls = @ + 1,
                                                 !.found_results = @ + 1])

increment_processed_urls(id) ==
    /\ outcome' = "returned"
    /\ state_store' =
        IF ~Present(id) THEN state_store
        ELSE Mutated(id, [state_store[id] EXCEPT !.processed_urls = @ + 1])

complete_search(id) ==
    /\ outcome' = "returned"
    /\ state_store' =
        IF ~Present(id) \/ Terminal(state_store[id]) THEN state_store
        ELSE Mutated(id, [state_store[id] EXCEPT !.current_status = "completed"])

fail_search(id) ==
    /\ outcome' = "returned"
    /\ state_store' =
        IF ~Present(id) \/ Terminal(state_store[id]) THEN state_store
        ELSE Mutated(id, [state_store[id] EXCEPT
                !.current_status = "error", !.error = "Search failed"])

StateManagerInit ==
    /\ state_store = <<>>
    /\ outcome = "returned"

\* The state tracker driven through its API, one call after another.
Others == <<crawlVars, rlVars, cacheVars, searchVars, otherVars>>

CallInitSearch == \E id \in SearchIds : init_search(id) /\ UNCHANGED Others

CallUpdateState ==
    \E id \in SearchIds :
        \E kwargs \in {[current_status |-> "searching"], [processed_urls |-> 1]} :
            update_state(id, kwargs) /\ UNCHANGED Others

CallMarkCompleted == \E id \in SearchIds : mark_completed(id) /\ UNCHANGED Others

CallMarkError == \E id \in SearchIds : mark_error(id, "boom") /\ UNCHANGED Others

CallUpdateTotalUrls ==
    \E id \in SearchIds, n \in 0..MaxCounter :
        update_total_urls(id, n) /\ UNCHANGED Others

CallIncrementProcessedUrls ==
    \E id \in SearchIds :
        /\ Present(id) => state_store[id].processed_urls < MaxCounter
        /\ increment_processed_urls(id)
        /\ UNCHANGED Others

CallCompleteSearch == \E id \in SearchIds : complete_search(id) /\ UNCHANGED Others

CallFailSearch == \E id \in SearchIds : fail_search(id) /\ UNCHANGED Others

(***************************************************************************)
(* Cache.  The backing store holds, per key, the text json.dumps made; a   *)
(* store call is one atomic single-key operation, and the store drops a    *)
(* key when its TTL has run out.                                           *)
(***************************************************************************)
cache_prefix == "search_cache:"

\* the text of a URL, the `url` argument of the cache
UrlString(u) == "https://" \o u.netloc \o u.path

CacheUrls == {UrlString(u) : u \in LinkedPages}

SearchTerms == {"q", "r"}

\* _make_key
make_key(url, search_term) == cache_prefix \o url \o ":" \o search_term

CacheKeys == {make_key(url, term) : url \in CacheUrls, term \in SearchTerms}

\* Python values: None, the dict of a result, an instance of the dataclass
\* SearchResult
None == [type |-> "NoneType", relevance |-> 0]

ResultDict(r) == [type |-> "dict", relevance |-> r]

SearchResult(r) == [type |-> "SearchResult", relevance |-> r]

\* bool(value)
Truthy(v) == v.type # "NoneType"

\* json.dumps raises TypeError on an instance of a dataclass
Serializable(v) == v.type \in {"NoneType", "dict"}

json_dumps(v) ==
    IF v.type = "NoneType" THEN "null"
    ELSE "{\"relevance\": " \o ToString(v.relevance) \o "}"

json_loads(text) ==
    IF text = "null" THEN None
    ELSE CHOOSE v \in {ResultDict(r) : r \in 1..MaxRelevance} : json_dumps(v) = text

\* what the store does: SETEX, DEL
Setex(store, key, text) == (key :> text) @@ store

DeletedAll(store, key) == <<>>

Deleted(store, key) == [k \in DOMAIN store \ {key} |-> store[k]]

\* history values: no get_result call since the last write; a key
\* invalidated, which held a text or held none
NoGet == [key |-> "", value |-> None]

Invalidated(held) ==
    [type |-> IF held THEN "invalidated" ELSE "invalidated-absent", relevance |-> 0]

IsInvalidated(v) == v.type \in {"invalidated", "invalidated-absent"}

CacheServiceInit ==
    /\ cache = <<>>
    /\ expected = <<>>
    /\ got = NoGet

\* get_result(url, search_term): json.loads of the stored text, None when
\* the key is absent (or the text empty)
GetResult(url, search_term) ==
    LET key == make_key(url, search_term) IN
    IF key \in DOMAIN cache /\ cache[key] # "" THEN json_loads(cache[key]) ELSE None

get_result(url, search_term) ==
    /\ got' = [key |-> make_key(url, search_term), value |-> GetResult(url, search_term)]
    /\ UNCHANGED <<cache, expected>>

\* store_result(url, search_term, result): json.dumps runs before the store
\* is called; when it raises, handle_cache_errors logs and returns None
store_result(url, search_term, result) ==
    LET key == make_key(url, search_term) IN
    /\ cache' = IF Serializable(result) THEN Setex(cache, key, json_dumps(result))
                ELSE cache
    /\ expected' = (key :> result) @@ expected
    /\ got' = NoGet

\* invalidate(url, search_term)
invalidate(url, search_term) ==
    LET key == make_key(url, search_term) IN
    /\ cache' = Deleted(cache, key)
    /\ expected' = (key :> Invalidated(key \in DOMAIN cache)) @@ expected
    /\ got' = NoGet

\* the TTL of a key runs out: the store drops it
expire(key) ==
    /\ key \in DOMAIN cache
    /\ cache' = [k \in DOMAIN cache \ {key} |-> cache[k]]
    /\ expected' = [k \in DOMAIN expected \ {key} |-> expected[k]]
    /\ got' = NoGet

\* The cache driven through its API, one call after another.
NotCache == <<crawlVars, rlVars, trackerVars, searchVars, otherVars>>

CallGetResult ==
    \E url \in CacheUrls, term \in SearchTerms :
        get_result(url, term) /\ UNCHANGED NotCache

CallStoreResult ==
    \E url \in CacheUrls, term \in SearchTerms :
        \E result \in {None, ResultDict(1), SearchResult(1)} :
            store_result(url, term, result) /\ UNCHANGED NotCache

CallInvalidate ==
    \E url \in CacheUrls, term \in SearchTerms :
        invalidate(url, term) /\ UNCHANGED NotCache

Expire == \E key \in CacheKeys : expire(key) /\ UNCHANGED NotCache

(***************************************************************************)
(* The keys of the cache for urls and search terms that hold a colon: a    *)
(* path may hold one, and the search term is the text the client sent.     *)
(***************************************************************************)
ColonUrls == {"https://ex.test/a", "https://ex.test/a:b"}

ColonTerms == {"q", "b:q"}

Pairs == ColonUrls \X ColonTerms

NoPair == <<"", "">>

KeysInit == kc = [stored |-> <<>>, asked |-> NoPair, answer |-> None]

KeysOthers ==
    <<crawlVars, rlVars, trackerVars, searchVars, rankVars, evictVars, webVars, fetchVars,
      startVars, sweepVars>>

\* store_result(url, search_term, result) with a dict
store_for_pair(url, search_term, result) ==
    /\ store_result(url, search_term, result)
    /\ kc' = [kc EXCEPT !.stored = (<<url, search_term>> :> result) @@ @]
    /\ UNCHANGED KeysOthers

\* get_result(url, search_term)
get_for_pair(url, search_term) ==
    /\ get_result(url, search_term)
    /\ kc' = [kc EXCEPT !.asked = <<url, search_term>>,
                        !.answer = GetResult(url, search_term)]
    /\ UNCHANGED KeysOthers

StoreForPair ==
    \E url \in ColonUrls, term \in ColonTerms, r \in 1..MaxRelevance :
        store_for_pair(url, term, ResultDict(r))

GetForPair == \E url \in ColonUrls, term \in ColonTerms : get_for_pair(url, term)

(***************************************************************************)
(* Size-bounded eviction of the cache (monitor_size, _cleanup_by_size).    *)
(* The length of a stored text is counted in units of 128 KiB, so that     *)
(* total_size / (1024 * 1024) is an eighth of the units, and megabytes are *)
(* counted in hundredths, the precision of round(..., 2).                  *)
(***************************************************************************)
\* the sequences that hold each element of S once
Orders(S) ==
    {f \in [1..Cardinality(S) -> S] : \A i, j \in 1..Cardinality(S) : f[i] = f[j] => i = j}

UnitsPerMb == 8

\* the lengths and the residual TTLs of the entries of the model
Metas == [ttl : 1..MaxTtl, size : {3, 5}]

NoMeta == [ttl |-> 1, size |-> 3]

\* round(n / d): to the nearest integer, a tie to the even one
RoundHalfEven(n, d) ==
    LET q == n \div d
        r == n % d
    IN  IF 2 * r < d THEN q
        ELSE IF 2 * r > d THEN q + 1
        ELSE IF q % 2 = 0 THEN q ELSE q + 1

\* get_stats: total_size, the sum of len(value) over the keys of the scan
RECURSIVE total_size(_)
total_size(store) ==
    IF DOMAIN store = {} THEN 0
    ELSE LET key == CHOOSE k \in DOMAIN store : TRUE IN
         meta[key].size + total_size([k \in DOMAIN store \ {key} |-> store[k]])

\* get_stats: total_size_mb = round(total_size / (1024 * 1024), 2), in hundredths
total_size_mb(store) == RoundHalfEven(100 * total_size(store), UnitsPerMb)

\* current_size_mb <= max_size_mb
AtMost(size_mb, max_size_mb) == size_mb <= 100 * max_size_mb

\* keys_ttl after the scan and keys_ttl.sort(key=lambda x: x[1]): the keys of
\* the store in an order of non-decreasing TTL
SortedByTtl(store) ==
    {o \in Orders(DOMAIN store) :
        \A i \in 1..(Len(o) - 1) : meta[o[i]].ttl <= meta[o[i + 1]].ttl}

EvictIdle == [pc |-> "idle", max_size_mb |-> 0, keys_ttl |-> <<>>, ret |-> "none"]

EvictInit ==
    /\ meta = [key \in CacheKeys |-> NoMeta]
    /\ ev = EvictIdle

\* monitor_size(max_size_mb) up to its return or to the first delete of
\* _cleanup_by_size.  usage_percent divides by max_size_mb: with 0 the
\* ZeroDivisionError is caught by handle_cache_errors and the call returns
\* None before it has compared anything.
monitor_size(max_size_mb) ==
    /\ ev.pc = "idle"
    /\ IF max_size_mb = 0
       THEN ev' = [ev EXCEPT !.pc = "done", !.max_size_mb = max_size_mb, !.ret = "None"]
       ELSE IF AtMost(total_size_mb(cache), max_size_mb)
       THEN ev' = [ev EXCEPT !.pc = "done", !.max_size_mb = max_size_mb, !.ret = "OK"]
       ELSE \E o \in SortedByTtl(cache) :
                ev' = [pc |-> "deleting", max_size_mb |-> max_size_mb,
                       keys_ttl |-> o, ret |-> "WARNING"]
    /\ UNCHANGED <<meta, cacheVars>>
    /\ UNCHANGED <<crawlVars, rlVars, trackerVars, searchVars, rankVars, webVars, laterVars>>

\* _cleanup_by_size: one round of its loop: delete the next key, read the
\* size again, break when it is within the limit
cleanup_deletes ==
    /\ ev.pc = "deleting"
    /\ LET key == Head(ev.keys_ttl)
           left == Deleted(cache, key)
       IN  /\ cache' = left
           /\ ev' = [ev EXCEPT !.keys_ttl = Tail(@),
                               !.pc = IF AtMost(total_size_mb(left), ev.max_size_mb)
                                         \/ Tail(ev.keys_ttl) = <<>>
                                      THEN "done" ELSE "deleting"]
    /\ UNCHANGED <<meta, expected, got>>
    /\ UNCHANGED <<crawlVars, rlVars, trackerVars, searchVars, rankVars, webVars, laterVars>>

(***************************************************************************)
(* Ranker (utils/text_ranking.py) and matcher (app/core/text_processor.py).*)
(* Scores are fractions <<numerator, denominator>>.  A text (a title, a    *)
(* meta description, a header, the context of a match) is given by what    *)
(* the scores read of it: whether the lowered search term is a substring,  *)
(* and which share of the words of the term are words of the text.         *)
(***************************************************************************)
RECURSIVE GCD(_, _)
GCD(a, b) == IF b = 0 THEN a ELSE GCD(b, a % b)

Frac(p, q) == <<p \div GCD(p, q), q \div GCD(p, q)>>

FAdd(a, b) == Frac(a[1] * b[2] + b[1] * a[2], a[2] * b[2])

FMul(a, b) == Frac(a[1] * b[1], a[2] * b[2])

FLeq(a, b) == a[1] * b[2] <= b[1] * a[2]

FMin(a, b) == IF FLeq(a, b) THEN a ELSE b

Zero == Frac(0, 1)

Unit == Frac(1, 1)

RECURSIVE FSum(_)
FSum(fs) == IF fs = <<>> THEN Zero ELSE FAdd(Head(fs), FSum(Tail(fs)))

RECURSIVE FMaxOf(_)
FMaxOf(fs) ==
    IF Len(fs) = 1 THEN fs[1]
    ELSE LET m == FMaxOf(Tail(fs)) IN IF FLeq(m, Head(fs)) THEN Head(fs) ELSE m

\* len(matching_words) / len(search_words) for a text that lacks the term
Shares == {Frac(0, 1), Frac(1, 2), Frac(1, 1)}

Texts == [exact : {TRUE}, share : {Unit}] \cup [exact : {FALSE}, share : Shares]

HeaderLists == {<<>>} \cup {<<t>> : t \in Texts}

\* what the elements of `matches` are: the str of the signature of
\* calculate_relevance, or the TextMatch objects _find_matches builds
MatchKinds == {"str", "TextMatch"}

weights ==
    [title |-> Frac(3, 1), meta |-> Frac(2, 1), headers |-> Frac(3, 2),
     content |-> Frac(1, 1), position |-> Frac(1, 2)]

\* _calculate_title_score and _calculate_meta_score, and the score of one
\* header or one match: 1.0 if search_term in text, else the share of matching
\* words (0.0 for the empty text, which has neither)
TextScore(t) == IF t.exact THEN Unit ELSE t.share

_calculate_headers_score(headers) ==
    IF headers = <<>> THEN Zero
    ELSE FMaxOf([i \in 1..Len(headers) |-> TextScore(headers[i])])

\* match.lower(): a str has it, a TextMatch has not (AttributeError)
LowerRaises(kind, matches) == kind = "TextMatch" /\ matches # <<>>

\* min(total_score / len(matches), 1.0)
_calculate_content_score(matches) ==
    IF matches = <<>> THEN Zero
    ELSE FMin(FMul(FSum([i \in 1..Len(matches) |-> TextScore(matches[i])]),
                   Frac(1, Len(matches))),
              Unit)

\* sum(1 / (i + 1) for i in range(len(matches))) / len(matches)
_calculate_position_score(matches) ==
    IF matches = <<>> THEN Zero
    ELSE FMul(FSum([i \in 1..Len(matches) |-> Frac(1, i)]), Frac(1, Len(matches)))

Raised == [raised |-> TRUE]

NotRanked == [raised |-> FALSE, ranked |-> FALSE]

\* TextRanker.calculate_relevance: the RankingMetrics, or the AttributeError
\* of _calculate_content_score
calculate_relevance(kind, matches, title, meta_description, headers) ==
    IF LowerRaises(kind, matches) THEN Raised
    ELSE LET title_score == TextScore(title)
             meta_score == TextScore(meta_description)
             headers_score == _calculate_headers_score(headers)
             content_score == _calculate_content_score(matches)
             position_score == _calculate_position_score(matches)
         IN  [raised |-> FALSE, ranked |-> TRUE,
              content_score |-> content_score,
              position_score |-> position_score,
              total_score |->
                FAdd(FMul(title_score, weights.title),
                FAdd(FMul(meta_score, weights.meta),
                FAdd(FMul(headers_score, weights.headers),
                FAdd(FMul(content_score, weights.content),
                     FMul(position_score, weights.position)))))]

\* TextProcessor.process on a page whose text has these matches: None (0)
\* without a match; with matches it calls calculate_relevance on the
\* TextMatch objects, and its `except Exception` turns what that raises into
\* None; else a SearchResult (1) whose relevance is the RankingMetrics
process(matches, title, meta_description, headers) ==
    IF matches = <<>> THEN 0
    ELSE IF calculate_relevance("TextMatch", matches, title, meta_description,
                                headers) = Raised
         THEN 0
         ELSE 1

TextRankerInit ==
    rk = [kind |-> "str", title |-> [exact |-> FALSE, share |-> Zero],
          meta_description |-> [exact |-> FALSE, share |-> Zero],
          headers |-> <<>>, matches |-> <<>>, prev |-> NotRanked, out |-> NotRanked]

\* the pages the ranker is given before their first match is found
RankerInputs ==
    [kind : MatchKinds, title : Texts, meta_description : Texts,
     headers : HeaderLists, matches : {<<>>}, prev : {NotRanked}, out : {NotRanked}]

\* calculate_relevance is called for the page with one more match in its
\* text, everything else as it was; prev keeps what the call before returned
rank_with_one_more_match ==
    /\ Len(rk.matches) < MaxMatches
    /\ \E context \in Texts :
        LET more == Append(rk.matches, context) IN
        rk' = [rk EXCEPT !.matches = more,
                         !.prev = rk.out,
                         !.out = calculate_relevance(rk.kind, more, rk.title,
                                                     rk.meta_description, rk.headers)]
    /\ UNCHANGED <<crawlVars, rlVars, trackerVars, cacheVars, searchVars, evictVars,
                   webVars, laterVars>>

(***************************************************************************)
(* Orchestrator: one run of SearchEngine.search, with search_id "1" and    *)
(* search term "q", on call "s1" of the crawler.                           *)
(***************************************************************************)
TheSearch == "1"

SearchTerm == "q"

\* the urls for which search's `if cached_result := await get_result(...)`
\* is taken
HitUrls == {u \in URLs : Truthy(GetResult(UrlString(u), SearchTerm))}

\* a cache primed with a result dict for each url of S
PrimedCache(S) ==
    [key \in {make_key(UrlString(u), SearchTerm) : u \in S} |-> json_dumps(ResultDict(1))]

TheCall == "s1"

SearchEngineInit ==
    /\ spc = "new"
    /\ order = <<>>
    /\ tpc = [u \in URLs |-> "none"]
    /\ tres = [u \in URLs |-> -1]
    /\ counted = {}
    /\ returned = <<>>
    /\ faults = {}

\* list.sort(key=relevance, reverse=True): stable, by descending relevance
RECURSIVE InsertByRelevance(_, _)
InsertByRelevance(sorted, r) ==
    IF sorted = <<>> THEN <<r>>
    ELSE IF Head(sorted).relevance >= r.relevance
         THEN <<Head(sorted)>> \o InsertByRelevance(Tail(sorted), r)
         ELSE <<r>> \o sorted

RECURSIVE SortByRelevance(_)
SortByRelevance(xs) ==
    IF xs = <<>> THEN <<>>
    ELSE InsertByRelevance(SortByRelevance(SubSeq(xs, 1, Len(xs) - 1)), xs[Len(xs)])

\* no filter: every outcome of gather stays in the list
RECURSIVE AllResults(_, _)
AllResults(urls, res) ==
    IF urls = <<>> THEN <<>>
    ELSE <<[url |-> Head(urls), relevance |-> res[Head(urls)]]>>
         \o AllResults(Tail(urls), res)

\* [r for r in results if isinstance(r, SearchResult)], in gather's order
RECURSIVE ValidResults(_, _)
ValidResults(urls, res) ==
    IF urls = <<>> THEN <<>>
    ELSE (IF res[Head(urls)] > 0
          THEN <<[url |-> Head(urls), relevance |-> res[Head(urls)]]>>
          ELSE <<>>) \o ValidResults(Tail(urls), res)

\* the relevance process gives a SearchResult is a RankingMetrics, a dataclass
\* without ordering: the sort raises TypeError once it compares two
SortRaises(xs) == Len(xs) >= 2

\* len(urls), the argument of update_total_urls
UrlCountLessOne(urls) == Cardinality(urls) - 1

UrlCount(urls) == Cardinality(urls)

\* search: await init_search(search_id)
search_init ==
    /\ spc = "new"
    /\ init_search(TheSearch)
    /\ spc' = "crawling"
    /\ UNCHANGED <<order, tpc, tres, counted, returned, faults>>
    /\ UNCHANGED <<crawlVars, rlVars, cacheVars, otherVars>>

\* search: urls = await get_urls(start_url, max_pages), the call and its fetches
search_get_urls ==
    /\ spc = "crawling"
    /\ \E seed \in Seeds, budget \in PageBudgets :
        /\ get_urls_called(TheCall, seed, budget)
        /\ spc' = IF Parses(seed) THEN spc ELSE "failing"
    /\ UNCHANGED <<order, tpc, tres, counted, returned, faults>>
    /\ UNCHANGED <<rlVars, trackerVars, cacheVars, otherVars>>

search_fetch_returns ==
    /\ spc = "crawling"
    /\ fetch_returns(TheCall)

\* search: await update_total_urls(search_id, len(urls)); urls is the
\* crawler's seen_urls itself
search_update_total_urls ==
    /\ spc = "crawling"
    /\ cpc[TheCall] = "done"
    /\ update_total_urls(TheSearch, UrlCount(seen_urls))
    /\ spc' = "lookup"
    /\ UNCHANGED <<order, tpc, tres, counted, returned, faults>>
    /\ UNCHANGED <<crawlVars, rlVars, cacheVars, otherVars>>

\* the urls gather wrapped in a task before it reached the first cached dict
BeforeFirstHit(o, hits) ==
    {o[i] : i \in {j \in 1..Len(o) : \A k \in 1..j : o[k] \notin hits}}

\* a call of the backing store that raised
Fault(op, url) == [op |-> op, url |-> url]

\* the faults of the calls that mutate the state of the search
StateFaults == {f \in faults : f.op # "get_result"}

\* the urls whose get_result raised in redis.get or json.loads
LookupFailed == {f.url : f \in {g \in faults : g.op = "get_result"}}

\* a cache without the decorator: what get_result raises reaches search
cache_errors_propagate(failed) == failed

\* handle_cache_errors: the lookups whose exception gets past the decorator,
\* which catches Exception and returns None
handle_cache_errors(failed) == {}

\* search: the loop over urls with its cache lookups, and the call of gather;
\* `failed` are the urls on whose lookup the backing store raised, for which
\* the decorator of get_result returns None.  A hit puts the cached dict
\* itself among the coroutines: gather schedules a task for each coroutine
\* before the dict and raises TypeError on the dict, so search goes to its
\* except branch while those tasks run on.  Without a hit every url gets its
\* task; gather of nothing returns at once.
Lookups(failed) ==
    /\ spc = "lookup"
    /\ faults' = faults \cup {Fault("get_result", u) : u \in failed}
    /\ \E o \in Orders(seen_urls) :
        LET hits == (seen_urls \cap HitUrls) \ failed IN
        /\ order' = o
        /\ IF handle_cache_errors(failed) # {}
           THEN /\ spc' = "failing"
                /\ tpc' = tpc
           ELSE /\ spc' = IF hits # {} THEN "failing"
                          ELSE IF seen_urls = {} THEN "completing"
                          ELSE "gathering"
                /\ tpc' = [u \in URLs |->
                            IF u \in BeforeFirstHit(o, hits) THEN "fetching" ELSE "none"]
    /\ UNCHANGED <<tres, counted, returned>>
    /\ UNCHANGED <<crawlVars, rlVars, trackerVars, cacheVars, otherVars>>

\* the lookups with the backing store answering each of them
search_lookups == Lookups({})

\* the lookups with the backing store raising on some of them
search_lookups_store_fails ==
    \E failed \in SUBSET seen_urls : failed # {} /\ Lookups(failed)

\* search: update_total_urls raises: the except branch
search_update_total_urls_fails ==
    /\ spc = "crawling"
    /\ cpc[TheCall] = "done"
    /\ spc' = "failing"
    /\ faults' = faults \cup {Fault("update_total_urls", NoUrl)}
    /\ UNCHANGED <<order, tpc, tres, counted, returned>>
    /\ UNCHANGED <<crawlVars, rlVars, trackerVars, cacheVars, otherVars>>

\* process_url: increment_processed_urls raises, `except Exception` logs it
\* and the task returns None
process_url_increment_fails(u) ==
    /\ tpc[u] = "incrementing"
    /\ tpc' = [tpc EXCEPT ![u] = "done"]
    /\ tres' = [tres EXCEPT ![u] = 0]
    /\ faults' = faults \cup {Fault("increment_processed_urls", u)}
    /\ UNCHANGED <<spc, order, counted, returned>>
    /\ UNCHANGED <<crawlVars, rlVars, trackerVars, cacheVars, otherVars>>

ProcessUrlIncrementFails == \E u \in URLs : process_url_increment_fails(u)

\* search: complete_search raises: the except branch
search_complete_fails ==
    /\ spc = "completing"
    /\ ~SortRaises(ValidResults(order, tres))
    /\ spc' = "failing"
    /\ faults' = faults \cup {Fault("complete_search", NoUrl)}
    /\ UNCHANGED <<order, tpc, tres, counted, returned>>
    /\ UNCHANGED <<crawlVars, rlVars, trackerVars, cacheVars, otherVars>>

\* a process_url whose failure escapes it and gather
process_url_uncaught(u) ==
    /\ tpc[u] = "fetching"
    /\ tpc' = [tpc EXCEPT ![u] = "done"]
    /\ tres' = [tres EXCEPT ![u] = 0]
    /\ spc' = "failing"
    /\ UNCHANGED <<order, counted, returned, faults>>
    /\ UNCHANGED <<crawlVars, rlVars, trackerVars, cacheVars, otherVars>>

\* process_url: fetch_page returns, then parse and process run on.  Without
\* content or without parsed content (the fetch or the parser failed) the
\* task returns None.  Else process gives None or a SearchResult, which is
\* handed to store_result, and the task awaits increment_processed_urls.
process_url_fetched(u) ==
    /\ tpc[u] = "fetching"
    /\ \/ /\ tpc' = [tpc EXCEPT ![u] = "done"]
          /\ tres' = [tres EXCEPT ![u] = 0]
          /\ UNCHANGED cacheVars
       \/ /\ tpc' = [tpc EXCEPT ![u] = "incrementing"]
          /\ \E n \in 0..MaxMatches, title \in Texts :
                LET matches == [i \in 1..n |-> [exact |-> TRUE, share |-> Unit]]
                    r == process(matches, title, title, <<>>)
                IN  /\ tres' = [tres EXCEPT ![u] = r]
                    /\ IF r > 0
                       THEN store_result(UrlString(u), SearchTerm, SearchResult(r))
                       ELSE UNCHANGED cacheVars
    /\ UNCHANGED <<spc, order, counted, returned, faults>>
    /\ UNCHANGED <<crawlVars, rlVars, trackerVars, otherVars>>

\* process_url: increment_processed_urls returns, the task returns its result
process_url_incremented(u) ==
    /\ tpc[u] = "incrementing"
    /\ increment_processed_urls(TheSearch)
    /\ tpc' = [tpc EXCEPT ![u] = "done"]
    /\ counted' = counted \cup {u}
    /\ UNCHANGED <<spc, order, tres, returned, faults>>
    /\ UNCHANGED <<crawlVars, rlVars, cacheVars, otherVars>>

ProcessUrlFetched == \E u \in URLs : process_url_fetched(u)

ProcessUrlIncremented == \E u \in URLs : process_url_incremented(u)

\* search: gather returns once every task has
search_gathered ==
    /\ spc = "gathering"
    /\ \A u \in seen_urls : tpc[u] = "done"
    /\ spc' = "completing"
    /\ UNCHANGED <<order, tpc, tres, counted, returned, faults>>
    /\ UNCHANGED <<crawlVars, rlVars, trackerVars, cacheVars, otherVars>>

\* search: the filter, the sort, await complete_search, return valid_results
search_complete ==
    /\ spc = "completing"
    /\ IF SortRaises(ValidResults(order, tres))
       THEN /\ spc' = "failing"
            /\ UNCHANGED <<trackerVars, returned>>
       ELSE /\ complete_search(TheSearch)
            /\ returned' = SortByRelevance(ValidResults(order, tres))
            /\ spc' = "returned"
    /\ UNCHANGED <<order, tpc, tres, counted, faults>>
    /\ UNCHANGED <<crawlVars, rlVars, cacheVars, otherVars>>

\* an except branch that re-raises without recording the failure
search_fail_state_untouched ==
    /\ spc = "failing"
    /\ spc' = "raised"
    /\ UNCHANGED <<order, tpc, tres, counted, returned, faults>>
    /\ UNCHANGED <<crawlVars, rlVars, trackerVars, cacheVars, otherVars>>

\* search: the except branch: await fail_search, raise
search_fail ==
    /\ spc = "failing"
    /\ fail_search(TheSearch)
    /\ spc' = "raised"
    /\ UNCHANGED <<order, tpc, tres, counted, returned, faults>>
    /\ UNCHANGED <<crawlVars, rlVars, cacheVars, otherVars>>

\* The task running search is cancelled while search is suspended in an
\* await: CancelledError is raised there, passes `except Exception` (it is a
\* BaseException) and ends the task.  A get_urls in its fetch ends with it;
\* cancelling a pending gather cancels each child that has not finished, and
\* CancelledError passes the `except Exception` of process_url too.
search_cancelled ==
    /\ spc \in {"crawling", "lookup", "gathering", "completing"}
    /\ spc' = "cancelled"
    /\ cpc' = [cpc EXCEPT ![TheCall] = IF @ = "fetching" THEN "cancelled" ELSE @]
    /\ tpc' = [u \in URLs |->
                IF spc = "gathering" /\ tpc[u] \in {"fetching", "incrementing"}
                THEN "cancelled" ELSE tpc[u]]
    /\ UNCHANGED <<graph, seen_urls, cur, to_visit, base_domain, max_pages, start_url,
                   own, ret, extracted>>
    /\ UNCHANGED <<order, tres, counted, returned, faults>>
    /\ UNCHANGED <<rlVars, trackerVars, cacheVars, otherVars>>

(***************************************************************************)
(* Web layer: the progress stream of a websocket                           *)
(* (web/websocket.py, handle_connection) and the /results route            *)
(* (web/routes.py).  The search of TheSearch is seen through the state it  *)
(* stores.                                                                 *)
(***************************************************************************)
Sockets == {"w1", "w2"}

NoSnapshot == "none"

Idle == [pc |-> "idle", search_id |-> "", snapshot |-> NoSnapshot, connected |-> TRUE,
         sent |-> <<>>]

NoResponse == [search_id |-> "", code |-> 0, status |-> "none"]

WebInit ==
    /\ conn = [ws \in Sockets |-> Idle]
    /\ active_connections = <<>>
    /\ response = NoResponse

\* the message of send_state and the message of send_error; ok tells whether
\* ws.send delivered it or raised because the peer is gone
StateUpdate(status, ok) == [type |-> "state_update", body |-> status, ok |-> ok]

Error(message, ok) == [type |-> "error", body |-> message, ok |-> ok]

\* a test that takes only completed for the end of a search
OnlyCompleted(status) == status = "completed"

\* state['current_status'] in ['completed', 'error']
IsTerminal(status) == status \in {"completed", "error"}

\* a loop that goes on after it has reported the missing search
AfterErrorSleep == "sleep"

\* the `break` after send_error(ws, "Search not found")
AfterError == "break"

\* active_connections[search_id].add(ws), with the set made first if need be
Registered(ws, search_id) ==
    (search_id :> ((IF search_id \in DOMAIN active_connections
                    THEN active_connections[search_id] ELSE {}) \cup {ws}))
        @@ active_connections

\* the finally of handle_connection: remove(ws), and del of the empty set
Unregistered(ws, search_id) ==
    IF search_id \notin DOMAIN active_connections THEN active_connections
    ELSE IF active_connections[search_id] \ {ws} = {}
         THEN [id \in DOMAIN active_connections \ {search_id} |-> active_connections[id]]
         ELSE [active_connections EXCEPT ![search_id] = @ \ {ws}]

\* the finally of handle_connection: set.remove(ws) raises KeyError when the
\* entry of the search_id is there and does not hold ws
FinallyRaises(ws, search_id) ==
    /\ search_id \in DOMAIN active_connections
    /\ ws \notin active_connections[search_id]

\* where handle_connection is after its finally
AfterFinally(ws, search_id) == IF FinallyRaises(ws, search_id) THEN "raised" ELSE "closed"

WebOthers == <<crawlVars, rlVars, cacheVars, searchVars, rankVars, evictVars, laterVars>>

\* handle_connection(ws, search_id) up to its first await of get_state
handle_connection(ws, search_id) ==
    /\ conn[ws].pc = "idle"
    /\ active_connections' = Registered(ws, search_id)
    /\ conn' = [conn EXCEPT ![ws].pc = "get_state", ![ws].search_id = search_id]
    /\ UNCHANGED <<response, trackerVars, WebOthers>>

\* get_state returns (None for an absent key, and for a store that raised)
\* and the loop hands its message to ws.send: the error "Search not found",
\* or the state_update of the snapshot
get_state_returns(ws) ==
    /\ conn[ws].pc = "get_state"
    /\ Len(conn[ws].sent) < MaxEmits
    /\ LET id == conn[ws].search_id IN
       IF ~Present(id)
       THEN conn' = [conn EXCEPT
                ![ws].pc = "send_error",
                ![ws].sent = Append(@, Error("Search not found", conn[ws].connected))]
       ELSE conn' = [conn EXCEPT
                ![ws].pc = "send_state",
                ![ws].snapshot = state_store[id].current_status,
                ![ws].sent = Append(@, StateUpdate(state_store[id].current_status,
                                                   conn[ws].connected))]
    /\ UNCHANGED <<active_connections, response, trackerVars, WebOthers>>

\* send_state returns: what ws.send raised was caught by handle_errors, so the
\* loop goes on either way: it breaks after a terminal snapshot and runs the
\* finally, or it sleeps
send_state_returns(ws) ==
    /\ conn[ws].pc = "send_state"
    /\ IF IsTerminal(conn[ws].snapshot)
       THEN /\ conn' = [conn EXCEPT ![ws].pc = AfterFinally(ws, conn[ws].search_id)]
            /\ active_connections' = Unregistered(ws, conn[ws].search_id)
       ELSE /\ conn' = [conn EXCEPT ![ws].pc = "sleep"]
            /\ UNCHANGED active_connections
    /\ UNCHANGED <<response, trackerVars, WebOthers>>

\* send_error returns: break, and the finally
send_error_returns(ws) ==
    /\ conn[ws].pc = "send_error"
    /\ IF AfterError = "break"
       THEN /\ conn' = [conn EXCEPT ![ws].pc = AfterFinally(ws, conn[ws].search_id)]
            /\ active_connections' = Unregistered(ws, conn[ws].search_id)
       ELSE /\ conn' = [conn EXCEPT ![ws].pc = AfterError]
            /\ UNCHANGED active_connections
    /\ UNCHANGED <<response, trackerVars, WebOthers>>

\* asyncio.sleep(0.5) returns
sleep_returns_ws(ws) ==
    /\ conn[ws].pc = "sleep"
    /\ conn' = [conn EXCEPT ![ws].pc = "get_state"]
    /\ UNCHANGED <<active_connections, response, trackerVars, WebOthers>>

\* the peer of a connection goes away; handle_connection is not told
disconnect(ws) ==
    /\ conn[ws].pc \notin {"idle", "closed"}
    /\ conn[ws].connected
    /\ conn' = [conn EXCEPT ![ws].connected = FALSE]
    /\ UNCHANGED <<active_connections, response, trackerVars, WebOthers>>

\* SearchEngine.get_results(search_id), which routes.py calls and no file
\* defines: the results held for the search
get_results(search_id) == "results"

\* the /results/<search_id> route: get_state, then the answer
results(search_id) ==
    /\ response' =
        IF ~Present(search_id)
        THEN [search_id |-> search_id, code |-> 404, status |-> "absent"]
        ELSE IF state_store[search_id].current_status # "completed"
        THEN [search_id |-> search_id, code |-> 202,
              status |-> state_store[search_id].current_status]
        ELSE [search_id |-> search_id, code |-> 200,
              status |-> state_store[search_id].current_status,
              body |-> get_results(search_id)]
    /\ UNCHANGED <<conn, active_connections, trackerVars, WebOthers>>

\* the search of TheSearch as the web layer sees it: its state calls
search_moves ==
    /\ \/ init_search(TheSearch)
       \/ update_total_urls(TheSearch, 1)
       \/ /\ Present(TheSearch)
          /\ state_store[TheSearch].processed_urls < MaxCounter
          /\ increment_processed_urls(TheSearch)
       \/ complete_search(TheSearch)
       \/ fail_search(TheSearch)
    /\ UNCHANGED <<webVars, WebOthers>>

\* the same search for a progress stream, which tells its snapshots apart by
\* their status: the calls that set the status
search_status_moves ==
    /\ \/ init_search(TheSearch)
       \/ update_total_urls(TheSearch, 1)
       \/ complete_search(TheSearch)
       \/ fail_search(TheSearch)
    /\ UNCHANGED <<webVars, WebOthers>>

\* the stored state of a search runs out of its expiration_time
state_expires ==
    /\ Present(TheSearch)
    /\ state_store' = [id \in DOMAIN state_store \ {TheSearch} |-> state_store[id]]
    /\ UNCHANGED <<outcome, webVars, WebOthers>>

HandleConnection == \E ws \in Sockets, id \in SearchIds : handle_connection(ws, id)

GetStateReturns == \E ws \in Sockets : get_state_returns(ws)

SendStateReturns == \E ws \in Sockets : send_state_returns(ws)

SendErrorReturns == \E ws \in Sockets : send_error_returns(ws)

SleepReturns == \E ws \in Sockets : sleep_returns_ws(ws)

Disconnect == \E ws \in Sockets : disconnect(ws)

Results == \E id \in SearchIds : results(id)

(***************************************************************************)
(* close_all_connections and broadcast_to_search (web/websocket.py): a     *)
(* loop over the set active_connections[search_id] that awaits in its      *)
(* body, beside the handle_connection loops.  A socket whose handler has   *)
(* ended does not connect again, so the set the loop iterates is unchanged *)
(* exactly when the entry is there and holds the sockets it held when the  *)
(* loop began.                                                             *)
(***************************************************************************)
NoSweep == [pc |-> "idle", search_id |-> "", members |-> {}, todo |-> {}, raised |-> "none"]

SweepInit == bc = NoSweep

SweepOthers ==
    <<crawlVars, rlVars, trackerVars, cacheVars, searchVars, rankVars, evictVars, fetchVars,
      startVars, keyVars>>

\* the next() of the set iterator raises RuntimeError("Set changed size
\* during iteration")
IterRaises ==
    IF bc.search_id \in DOMAIN active_connections
    THEN active_connections[bc.search_id] # bc.members
    ELSE TRUE

\* cleanup_inactive_connections found no state, or a terminal one, for a
\* search_id of the registry
CleanupWouldClose(search_id) ==
    IF Present(search_id) THEN IsTerminal(state_store[search_id].current_status) ELSE TRUE

\* close_all_connections(search_id) up to its first `await ws.close()`
close_all_connections(search_id) ==
    /\ bc.pc = "idle"
    /\ search_id \in DOMAIN active_connections
    /\ CleanupWouldClose(search_id)
    /\ \E ws \in active_connections[search_id] :
        /\ bc' = [pc |-> "closing", search_id |-> search_id,
                  members |-> active_connections[search_id],
                  todo |-> active_connections[search_id] \ {ws}, raised |-> "none"]
        /\ conn' = [conn EXCEPT ![ws].connected = FALSE]
    /\ UNCHANGED <<active_connections, response, SweepOthers>>

\* ws.close() returns (what it raises is caught) and the loop goes on: the
\* iterator raises, or gives the next socket, or ends and the entry is deleted
close_returns ==
    /\ bc.pc = "closing"
    /\ IF IterRaises
       THEN /\ bc' = [NoSweep EXCEPT !.raised = "RuntimeError"]
            /\ UNCHANGED <<conn, active_connections>>
       ELSE IF bc.todo = {}
       THEN /\ bc' = NoSweep
            /\ active_connections' =
                    [id \in DOMAIN active_connections \ {bc.search_id} |->
                        active_connections[id]]
            /\ UNCHANGED conn
       ELSE \E ws \in bc.todo :
            /\ bc' = [bc EXCEPT !.todo = @ \ {ws}]
            /\ conn' = [conn EXCEPT ![ws].connected = FALSE]
            /\ UNCHANGED active_connections
    /\ UNCHANGED <<response, SweepOthers>>

\* broadcast_to_search(search_id, message) up to its first `await ws.send`
broadcast_to_search(search_id) ==
    /\ bc.pc = "idle"
    /\ search_id \in DOMAIN active_connections
    /\ \E ws \in active_connections[search_id] :
        bc' = [pc |-> "sending", search_id |-> search_id,
               members |-> active_connections[search_id],
               todo |-> active_connections[search_id] \ {ws}, raised |-> "none"]
    /\ UNCHANGED <<webVars, SweepOthers>>

\* ws.send returns (what it raises is caught) and the loop goes on
broadcast_send_returns ==
    /\ bc.pc = "sending"
    /\ IF IterRaises
       THEN bc' = [NoSweep EXCEPT !.raised = "RuntimeError"]
       ELSE IF bc.todo = {}
       THEN bc' = NoSweep
       ELSE \E ws \in bc.todo : bc' = [bc EXCEPT !.todo = @ \ {ws}]
    /\ UNCHANGED <<webVars, SweepOthers>>

CloseAllConnections == \E id \in SearchIds : close_all_connections(id)

BroadcastToSearch == \E id \in SearchIds : broadcast_to_search(id)

(***************************************************************************)
(* The POST /search route (web/routes.py, search) and the first step of    *)
(* the task it creates, beside the /status route.  time.time() is the      *)
(* clock of the model in seconds, counted from 1.                          *)
(***************************************************************************)
Requests == {"r1", "r2"}

NoRequest == [pc |-> "none", search_id |-> "", found |-> "none", lookup |-> "none"]

StartInit == req = [r \in Requests |-> NoRequest]

\* str(int(time.time()))
TimeId == ToString(1 + (now \div TicksPerSecond))

StartOthers ==
    <<crawlVars, cacheVars, searchVars, rankVars, evictVars, webVars, fetchVars, keyVars,
      sweepVars>>

\* the route up to its return: the id, create_task, the answer with the id.
\* The store call of the task's init_search has not taken effect yet.
start_search(r) ==
    /\ req[r].pc = "none"
    /\ TimeId \in SearchIds
    /\ req' = [req EXCEPT ![r].pc = "created", ![r].search_id = TimeId]
    /\ UNCHANGED <<rlVars, trackerVars, StartOthers>>

\* the store call of the task's init_search takes effect: it writes the fresh
\* state over whatever the key holds
search_task_inits(r) ==
    /\ req[r].pc = "created"
    /\ init_search(req[r].search_id)
    /\ req' = [req EXCEPT
            ![r].pc = "running",
            ![r].found = IF Present(req[r].search_id)
                         THEN state_store[req[r].search_id].current_status
                         ELSE "absent"]
    /\ UNCHANGED <<rlVars, StartOthers>>

\* the store call of init_search raises: init_search raises again, the except
\* of search calls fail_search, which finds no state to mark
search_task_init_fails(r) ==
    /\ req[r].pc = "created"
    /\ req' = [req EXCEPT ![r].pc = "failed"]
    /\ outcome' = "raised"
    /\ UNCHANGED <<state_store, rlVars, StartOthers>>

\* the search of the task goes on to its end
search_task_completes(r) ==
    /\ req[r].pc = "running"
    /\ complete_search(req[r].search_id)
    /\ req' = [req EXCEPT ![r].pc = "done"]
    /\ UNCHANGED <<rlVars, StartOthers>>

\* the client asks /status/<search_id> with the id the route gave it
status(r) ==
    /\ req[r].pc # "none"
    /\ req' = [req EXCEPT ![r].lookup =
                    IF Present(req[r].search_id) THEN "found" ELSE "not_found"]
    /\ UNCHANGED <<rlVars, trackerVars, StartOthers>>

StartSearch == \E r \in Requests : start_search(r)

SearchTaskInits == \E r \in Requests : search_task_inits(r)

SearchTaskInitFails == \E r \in Requests : search_task_init_fails(r)

SearchTaskCompletes == \E r \in Requests : search_task_completes(r)

Status == \E r \in Requests : status(r)

(***************************************************************************)
(* Specifications                                                          *)
(***************************************************************************)
NoGraph == [u \in URLs |-> {}]

\* the parts of the model a specification of another part leaves idle
LaterInit == FetchInit /\ StartInit /\ KeysInit /\ SweepInit

OtherInit == TextRankerInit /\ EvictInit /\ WebInit /\ LaterInit

\* the crawler
InitCrawl ==
    /\ CrawlerInit /\ graph \in LinkGraphs
    /\ RateLimiterInit /\ StateManagerInit /\ SearchEngineInit /\ CacheServiceInit
    /\ OtherInit

NoOtherCallRuns(c) == \A d \in Calls \ {c} : cpc[d] # "fetching"

\* One call of get_urls at a time.
StartAlone ==
    \E c \in Calls, seed \in Seeds, budget \in PageBudgets :
        NoOtherCallRuns(c) /\ get_urls(c, seed, budget)

\* Calls of get_urls that overlap: two searches on the one engine.
StartAny ==
    \E c \in Calls, seed \in Seeds, budget \in PageBudgets : get_urls(c, seed, budget)

FetchReturns == \E c \in Calls : fetch_returns(c)

NextCrawl == StartAlone \/ FetchReturns

SpecCrawl == InitCrawl /\ [][NextCrawl]_vars

\* each fetch_page of a crawl returns
SpecCrawlFair == SpecCrawl /\ WF_vars(FetchReturns)

NextCrawlConc == StartAny \/ FetchReturns

SpecCrawlConc == InitCrawl /\ [][NextCrawlConc]_vars

\* the rate limiter
InitLimiter ==
    /\ RateLimiterInit
    /\ CrawlerInit /\ graph = NoGraph
    /\ StateManagerInit /\ SearchEngineInit /\ CacheServiceInit
    /\ OtherInit

NextLimiter == acquire \/ lock_acquired \/ sleep_returns \/ release \/ Tick

SpecLimiter == InitLimiter /\ [][NextLimiter]_vars

\* the state tracker
InitTracker ==
    /\ StateManagerInit
    /\ CrawlerInit /\ graph = NoGraph
    /\ RateLimiterInit /\ SearchEngineInit /\ CacheServiceInit
    /\ OtherInit

NextTracker ==
    \/ CallInitSearch
    \/ CallUpdateState
    \/ CallMarkCompleted
    \/ CallMarkError
    \/ CallUpdateTotalUrls
    \/ CallIncrementProcessedUrls
    \/ CallCompleteSearch
    \/ CallFailSearch

SpecTracker == InitTracker /\ [][NextTracker]_vars

\* one search
InitSearch ==
    /\ SearchEngineInit
    /\ \E S \in SUBSET LinkedPages : cache = PrimedCache(S)
    /\ expected = <<>> /\ got = NoGet
    /\ CrawlerInit /\ graph \in LinkGraphs
    /\ StateManagerInit /\ RateLimiterInit
    /\ OtherInit

NextSearch ==
    \/ search_init
    \/ search_get_urls
    \/ search_fetch_returns
    \/ search_update_total_urls
    \/ search_lookups
    \/ ProcessUrlFetched
    \/ ProcessUrlIncremented
    \/ search_gathered
    \/ search_complete
    \/ search_fail
    \/ search_cancelled

SpecSearch == InitSearch /\ [][NextSearch]_vars

\* one search whose backing store may raise on a cache lookup and on a
\* mutation of the state (it answers fail_search); the site is the seed page
\* with or without a link to one other page
InitSearchFaults ==
    /\ InitSearch
    /\ graph[UrlA] = {}
    /\ graph[UrlRoot] \subseteq {UrlA}

NextSearchFaults ==
    \/ NextSearch
    \/ search_lookups_store_fails
    \/ search_update_total_urls_fails
    \/ ProcessUrlIncrementFails
    \/ search_complete_fails

SpecSearchFaults == InitSearchFaults /\ [][NextSearchFaults]_vars

\* the ranker
InitRank ==
    /\ rk \in RankerInputs
    /\ EvictInit /\ WebInit /\ LaterInit
    /\ CrawlerInit /\ graph = NoGraph
    /\ RateLimiterInit /\ StateManagerInit /\ SearchEngineInit /\ CacheServiceInit

NextRank == rank_with_one_more_match

SpecRank == InitRank /\ [][NextRank]_vars

\* the eviction: a cache of entries with their lengths and TTLs, on which
\* monitor_size runs with no other call of the cache beside it
InitEvict ==
    /\ \E keys \in SUBSET CacheKeys :
        /\ cache = [key \in keys |-> json_dumps(ResultDict(1))]
        /\ meta \in [CacheKeys -> Metas]
        /\ \A key \in CacheKeys \ keys : meta[key] = NoMeta
    /\ ev = EvictIdle
    /\ expected = <<>> /\ got = NoGet
    /\ TextRankerInit /\ WebInit /\ LaterInit
    /\ CrawlerInit /\ graph = NoGraph
    /\ RateLimiterInit /\ StateManagerInit /\ SearchEngineInit

MonitorSize == \E max_size_mb \in 0..MaxLimitMb : monitor_size(max_size_mb)

NextEvict == MonitorSize \/ cleanup_deletes

SpecEvict == InitEvict /\ [][NextEvict]_vars

\* the web layer
InitWeb ==
    /\ WebInit
    /\ TextRankerInit /\ EvictInit /\ LaterInit
    /\ CrawlerInit /\ graph = NoGraph
    /\ RateLimiterInit /\ StateManagerInit /\ SearchEngineInit /\ CacheServiceInit

\* progress streams beside a search
NextStream ==
    \/ HandleConnection
    \/ GetStateReturns
    \/ SendStateReturns
    \/ SendErrorReturns
    \/ SleepReturns
    \/ Disconnect
    \/ search_status_moves
    \/ state_expires

SpecStream == InitWeb /\ [][NextStream]_vars

\* the registry of the progress streams beside close_all_connections and
\* broadcast_to_search
NextRegistry ==
    \/ HandleConnection
    \/ GetStateReturns
    \/ SendStateReturns
    \/ SendErrorReturns
    \/ SleepReturns
    \/ CloseAllConnections
    \/ close_returns
    \/ BroadcastToSearch
    \/ broadcast_send_returns
    \/ search_status_moves

SpecRegistry == InitWeb /\ [][NextRegistry]_vars

\* the /results route beside a search
NextRoutes == Results \/ search_moves \/ state_expires

SpecRoutes == InitWeb /\ [][NextRoutes]_vars

\* fetch_page on the bucket of one domain, full or emptied by five other
\* calls in flight
InitFetch ==
    /\ FetchInit
    /\ now = 0 /\ last_update = 0 /\ lock = "free" /\ wake = 0 /\ waiting = 0
    /\ acquired = <<>>
    /\ tokens \in {0, Burst}
    /\ inflight = (Burst - tokens) \div One
    /\ calls = inflight
    /\ TextRankerInit /\ EvictInit /\ WebInit /\ StartInit /\ KeysInit /\ SweepInit
    /\ CrawlerInit /\ graph = NoGraph
    /\ StateManagerInit /\ SearchEngineInit /\ CacheServiceInit

NextFetch ==
    \/ FetchPage
    \/ FetchLockAcquired
    \/ FetchSleepReturns
    \/ FetchResponds
    \/ FetchLeavesAcquire
    \/ FetchCancelled
    \/ other_fetch_ends
    \/ Tick

SpecFetch == InitFetch /\ [][NextFetch]_vars

\* searches started through the route
InitStart ==
    /\ StartInit /\ FetchInit /\ KeysInit /\ SweepInit
    /\ TextRankerInit /\ EvictInit /\ WebInit
    /\ CrawlerInit /\ graph = NoGraph
    /\ RateLimiterInit /\ StateManagerInit /\ SearchEngineInit /\ CacheServiceInit

NextStart ==
    \/ StartSearch
    \/ SearchTaskInits
    \/ SearchTaskInitFails
    \/ SearchTaskCompletes
    \/ Status
    \/ Tick

SpecStart == InitStart /\ [][NextStart]_vars

\* the cache
InitCache ==
    /\ CacheServiceInit
    /\ CrawlerInit /\ graph = NoGraph
    /\ RateLimiterInit /\ StateManagerInit /\ SearchEngineInit
    /\ OtherInit

NextCache == CallGetResult \/ CallStoreResult \/ CallInvalidate \/ Expire

SpecCache == InitCache /\ [][NextCache]_vars

\* the cache under keys that hold colons
NextKeys == StoreForPair \/ GetForPair

SpecKeys == InitCache /\ [][NextKeys]_vars

(***************************************************************************)
(* Claims about the crawler                                                *)
(***************************************************************************)
Max(a, b) == IF a >= b THEN a ELSE b

\* The visited set of a call: self.seen_urls while the call runs, the set it
\* returned once it has returned (none when it raised).
Visited(c) == IF cpc[c] = "fetching" THEN seen_urls ELSE ret[c]

\* C1: a get_urls call that runs alone never holds more than max_pages urls
\* in its visited set, at any suspension of the loop and on return; with
\* max_pages <= 0 it returns the empty set.
C1_VisitedWithinMaxPages ==
    \A c \in Calls :
        cpc[c] # "idle" => Cardinality(Visited(c)) <= Max(0, max_pages[c])

\* C1 witness: a call returned with max_pages urls while urls were pending.
C1_CapStoppedTheLoop ==
    \E c \in Calls :
        /\ cpc[c] = "done"
        /\ max_pages[c] >= 1
        /\ Cardinality(ret[c]) = max_pages[c]
        /\ to_visit[c] # {}

\* C2: every url a call that runs alone has visited or holds pending has the
\* host of the seed, whatever the fetched pages link to.
C2_SameHostAsSeed ==
    \A c \in Calls :
        cpc[c] # "idle" =>
            \A u \in Visited(c) \cup to_visit[c] : Host(u) = Host(start_url[c])

\* C2 witness: a call returned two urls after extracting a page that links to
\* another host.
C2_ForeignLinkSeen ==
    \E c \in Calls :
        /\ cpc[c] = "done"
        /\ Cardinality(ret[c]) >= 2
        /\ \E u \in extracted[c] : \E v \in graph[u] : Host(v) # Host(start_url[c])

\* C3: overlapping get_urls calls do not share their visited set: each call
\* returns exactly the urls it visited itself, which is what it returns when
\* it runs alone.
C3_CallsIsolated ==
    \A c \in Calls : cpc[c] = "done" => ret[c] = own[c]

(***************************************************************************)
(* Claims about the rate limiter                                           *)
(***************************************************************************)
\* C4: in every window of time the acquires that complete on the domain are
\* at most burst_size + floor(requests_per_second * T), T the length of the
\* window in seconds.
C4_RateBound ==
    \A i \in 1..Len(acquired) : \A j \in i..Len(acquired) :
        j - i + 1 <=
            burst_size
            + (requests_per_second * (acquired[j].at - acquired[i].at)) \div TicksPerSecond

\* C5: the tokens of the bucket stay within [0, burst_size].
C5_TokensWithinBurst == 0 <= tokens /\ tokens <= Burst

\* C6: an acquire completes only on a bucket that holds one whole token after
\* the refill, and takes exactly one token.
C6_WholeTokenTaken ==
    \A i \in 1..Len(acquired) :
        acquired[i].found >= One /\ acquired[i].left = acquired[i].found - One

C8_TerminalAbsorbing ==
    [][\A id \in SearchIds :
            (Present(id) /\ Terminal(state_store[id])) =>
                /\ id \in DOMAIN state_store'
                /\ state_store'[id].current_status = state_store[id].current_status]_vars

\* C9: when a search has reached the terminal status completed,
\* processed_urls equals total_urls.
C9_ProcessedEqualsTotal ==
    (Present(TheSearch) /\ state_store[TheSearch].current_status = "completed") =>
        state_store[TheSearch].processed_urls = state_store[TheSearch].total_urls

TheState == state_store[TheSearch]

C12_CountersNonDecreasing ==
    [][\A id \in SearchIds :
            (Present(id) /\ id \in DOMAIN state_store') =>
                /\ state_store'[id].processed_urls >= state_store[id].processed_urls
                /\ state_store'[id].found_results >= state_store[id].found_results]_vars

\* C13: within a search the mutations are ordered: a counter is incremented
\* only after set_total (the status is searching), never before it and never
\* once the state is terminal.
C13_IncrementsWhileSearching ==
    [][(Present(TheSearch) /\ TheSearch \in DOMAIN state_store'
          /\ \/ state_store'[TheSearch].processed_urls # TheState.processed_urls
             \/ state_store'[TheSearch].found_results # TheState.found_results)
        => TheState.current_status = "searching"]_vars

\* C14: a search whose task was cancelled while it ran is in status error.
C14_CancelledSearchIsError ==
    spc = "cancelled" =>
        Present(TheSearch) /\ TheState.current_status = "error"

WithoutResult == {u \in seen_urls : tpc[u] = "done" /\ tres[u] = 0}

WithResult == {u \in seen_urls : tpc[u] = "done" /\ tres[u] > 0}

C17_CachedResultServed ==
    (spc \in {"returned", "raised"} /\ seen_urls \cap HitUrls # {}) =>
        /\ spc = "returned"
        /\ TheState.current_status = "completed"
        /\ \A u \in seen_urls \cap HitUrls :
            /\ tpc[u] = "none"
            /\ \E i \in 1..Len(returned) : returned[i].url = u

\* C18: once a url was processed for the search term and the matcher gave
\* no SearchResult, the cache holds the null value under its key.
C18_NoMatchCached ==
    \A u \in counted :
        tres[u] = 0 =>
            LET key == make_key(UrlString(u), SearchTerm) IN
            key \in DOMAIN cache /\ cache[key] = json_dumps(None)

(***************************************************************************)
(* Claims about the cache                                                  *)
(***************************************************************************)
\* C19: a get_result that follows a store_result of v under the same key,
\* with no invalidate, no expiry and no other write of the key in between,
\* returns v; a later store_result replaces the value.
C19_RoundTrip ==
    (got.key \in DOMAIN expected /\ ~IsInvalidated(expected[got.key])) =>
        got.value = expected[got.key]

\* C20: invalidate(u, q) removes the key of (u, q) and leaves every other
\* key as it was, and a get_result of (u, q) returns None until the next
\* store_result of (u, q).
C20_InvalidateRemovesOneKey ==
    [][/\ (got'.key \in DOMAIN expected' /\ IsInvalidated(expected'[got'.key]))
            => got'.value = None
       /\ \A key \in CacheKeys :
            (/\ key \in DOMAIN expected' /\ IsInvalidated(expected'[key])
             /\ ~(key \in DOMAIN expected /\ IsInvalidated(expected[key])))
            => /\ key \notin DOMAIN cache'
               /\ DOMAIN cache' = DOMAIN cache \ {key}
               /\ \A other \in DOMAIN cache' : cache'[other] = cache[other]]_vars

\* C20 witness: get_result returned None for a key that held a text when it
\* was invalidated, while the result stored under another key is still there.
C20_InvalidatedKeyAbsent ==
    /\ got.key \in DOMAIN expected
    /\ expected[got.key] = Invalidated(TRUE)
    /\ got.value = None
    /\ \E other \in DOMAIN cache :
        /\ other # got.key
        /\ other \in DOMAIN expected
        /\ Truthy(expected[other])
        /\ json_loads(cache[other]) = expected[other]

(***************************************************************************)
(* Claims about the eviction                                               *)
(***************************************************************************)
\* C23: monitor_size deletes a key only while the usage is above the limit
\* and only a key with the smallest residual TTL among those present, and
\* when the call has ended the usage is within the limit.
C23_EvictsByTtlDownToLimit ==
    [][/\ \A key \in DOMAIN cache \ DOMAIN cache' :
            /\ ~AtMost(total_size_mb(cache), ev.max_size_mb)
            /\ \A other \in DOMAIN cache : meta[other].ttl >= meta[key].ttl
       /\ ev'.pc = "done" => AtMost(total_size_mb(cache'), ev'.max_size_mb)]_vars

(***************************************************************************)
(* Claims about a failing backing store                                    *)
(***************************************************************************)
\* the urls search found in the cache: those with a truthy entry whose lookup
\* did not fail
Hits == (seen_urls \cap HitUrls) \ LookupFailed

AfterLookups == spc \in {"gathering", "completing", "returned", "failing", "raised"}

\* C21: a lookup on which the backing store raised is a cache miss to search:
\* it sends search to its except branch no more than a miss does, and when
\* search found no url in the cache every url whose lookup failed has its
\* process_url task like any other.
C21_FailedLookupIsMiss ==
    /\ (spc \in {"failing", "raised"} /\ LookupFailed # {}) =>
            (Hits # {} \/ StateFaults # {})
    /\ (AfterLookups /\ StateFaults = {} /\ Hits = {} /\ order # <<>>) =>
            /\ spc \notin {"failing", "raised"}
            /\ \A u \in LookupFailed : tpc[u] # "none"

\* C21 witness: the cache held a result for a url, the lookup of that url
\* failed, the url was fetched and processed, and search returned, completed.
C21_ProcessedAfterFailedLookup ==
    /\ spc = "returned"
    /\ TheState.current_status = "completed"
    /\ \E u \in LookupFailed \cap HitUrls : u \in counted

\* C22: when the state store has raised during a mutation of the state of a
\* search (update_total_urls, an increment of a per-url task, complete_search),
\* the search ends in status error and in no case returns as completed.
C22_StoreFailureFailsSearch ==
    (spc \in {"returned", "raised"} /\ StateFaults # {}) =>
        /\ spc = "raised"
        /\ Present(TheSearch)
        /\ TheState.current_status = "error"

C29_MoreMatchesNotLower ==
    (/\ Len(rk.matches) >= 2
     /\ \A i \in 1..Len(rk.matches) : rk.matches[i].exact) =>
        /\ rk.prev # Raised /\ rk.out # Raised
        /\ FLeq(rk.prev.total_score, rk.out.total_score)

\* C30: a link whose host differs from the host of the seed only in the case
\* of its letters is same-domain: once a call has extracted the links of a
\* page, each such link is pending or visited.
C30_HostComparedCaseInsensitively ==
    \A c \in Calls :
        cpc[c] \in {"fetching", "done"} =>
            \A page \in extracted[c] :
                \A link \in graph[page] :
                    Host(link) = Lower(base_domain[c]) =>
                        link \in Visited(c) \cup to_visit[c]

(***************************************************************************)
(* Claims about the web layer                                              *)
(***************************************************************************)
Last(seq) == seq[Len(seq)]

TerminalUpdate(m) == m.type = "state_update" /\ m.body \in {"completed", "error"}

\* C24: a progress stream sends nothing after the first snapshot whose status
\* is completed or error and ends once that snapshot is sent, and it does not
\* end while the snapshots it reads are not terminal (it ends only after a
\* terminal snapshot or after the error of a missing search).
C24_EndsOnFirstTerminalSnapshot ==
    \A ws \in Sockets :
        LET sent == conn[ws].sent IN
        /\ \A i \in 1..(Len(sent) - 1) : ~TerminalUpdate(sent[i])
        /\ (sent # <<>> /\ TerminalUpdate(Last(sent))) =>
                conn[ws].pc \in {"send_state", "closed"}
        /\ conn[ws].pc = "closed" =>
                (sent # <<>> /\ (TerminalUpdate(Last(sent)) \/ Last(sent).type = "error"))
        /\ conn[ws].pc = "sleep" =>
                (sent # <<>> /\ Last(sent).type = "state_update")

\* C24 witness: a stream whose peer stayed connected has sent snapshots of the
\* running search, then the terminal one, and has ended.
C24_StreamedToTheEnd ==
    \E ws \in Sockets :
        LET sent == conn[ws].sent IN
        /\ conn[ws].pc = "closed"
        /\ conn[ws].connected
        /\ Len(sent) >= 2
        /\ TerminalUpdate(Last(sent))
        /\ \A i \in 1..(Len(sent) - 1) : sent[i].type = "state_update"

\* C25: a stream that finds no state for its search_id sends the one error
\* "Search not found" and ends: the error is the last message it sends, and
\* no snapshot follows it.
C25_NotFoundEndsStream ==
    \A ws \in Sockets :
        LET sent == conn[ws].sent IN
        /\ \A i \in 1..(Len(sent) - 1) : sent[i].type # "error"
        /\ (sent # <<>> /\ Last(sent).type = "error") =>
                /\ Last(sent).body = "Search not found"
                /\ conn[ws].pc \in {"send_error", "closed"}
        /\ conn[ws].pc = "send_error" => (sent # <<>> /\ Last(sent).type = "error")

\* C25 witness: a stream has sent a snapshot, the state of its search was
\* gone at the next lookup, and it ended with the error as its last message.
C25_EndedWithNotFound ==
    \E ws \in Sockets :
        LET sent == conn[ws].sent IN
        /\ conn[ws].pc = "closed"
        /\ Len(sent) = 2
        /\ sent[1].type = "state_update"
        /\ sent[2] = Error("Search not found", TRUE)
        /\ ws \notin UNION {active_connections[id] : id \in DOMAIN active_connections}

\* C26: a disconnect or a failed send of one subscriber ends the loop of that
\* subscriber (nothing more is handed to its ws.send) and touches nothing
\* else: a step of one stream leaves the other streams and the state of the
\* search as they are.
C26_FailureEndsOnlyThatStream ==
    [][/\ \A ws \in Sockets :
            (conn[ws].sent # <<>> /\ ~Last(conn[ws].sent).ok) =>
                conn'[ws].sent = conn[ws].sent
       /\ \A ws \in Sockets :
            conn'[ws] # conn[ws] =>
                /\ \A other \in Sockets \ {ws} : conn'[other] = conn[other]
                /\ state_store' = state_store]_vars

\* C27: the /results route answers 202 exactly when the status it read is not
\* terminal, and 200 when it is completed.
C27_PendingOnlyWhileRunning ==
    response # NoResponse =>
        /\ response.code = 202 <=> response.status \in {"waiting", "searching"}
        /\ response.status = "completed" => response.code = 200

(***************************************************************************)
(* Claims about fetch_page                                                 *)
(***************************************************************************)
\* C31: every call of fetch_page calls release exactly once, on every path:
\* a call that has ended has released once, a call that is running has not
\* released yet, and the step that ends a call is the step of its release.
C31_ReleasedOncePerCall ==
    \A f \in Fetches :
        /\ fp[f].pc = "idle" => fp[f].released = fp[f].called
        /\ fp[f].pc # "idle" => fp[f].released = fp[f].called - 1

\* C31 witness: a call was cancelled inside its acquire, asleep with the lock
\* on an empty bucket, and has released once.
C31_CancelledInAcquireReleased ==
    \E f \in Fetches :
        /\ fp[f].pc = "idle"
        /\ fp[f].path = "cancelled_in_acquire"
        /\ fp[f].called = 1
        /\ fp[f].released = 1
        /\ lock = "free"

(***************************************************************************)
(* Claims about the completeness and the termination of get_urls           *)
(***************************************************************************)
RECURSIVE LinkClosure(_, _)
\* the urls of the host of seed that links lead to from the urls of S
LinkClosure(S, seed) ==
    LET T == S \cup {v \in UNION {graph[u] : u \in S} : Host(v) = Host(seed)}
    IN  IF T = S THEN S ELSE LinkClosure(T, seed)

\* the same-host urls reachable from the seed
Reachable(seed) == LinkClosure({seed}, seed)

\* every fetch of the call gave the page: the links of every page it visited
\* were extracted
EveryFetchSucceeded(c) ==
    \A u \in ret[c] : graph[u] # {} => u \in extracted[c]

\* C32: a get_urls call with max_pages >= 1 whose fetches all succeed
\* returns the whole set of same-host urls reachable from the seed when that
\* set has at most max_pages urls, and else exactly max_pages reachable urls.
C32_ReturnsReachableSet ==
    \A c \in Calls :
        (cpc[c] = "done" /\ max_pages[c] >= 1 /\ EveryFetchSucceeded(c)) =>
            IF Cardinality(Reachable(start_url[c])) <= max_pages[c]
            THEN ret[c] = Reachable(start_url[c])
            ELSE /\ Cardinality(ret[c]) = max_pages[c]
                 /\ ret[c] \subseteq Reachable(start_url[c])

\* C33: a get_urls call whose fetches return terminates, for every link graph
\* (cycles and self-links included) and every max_pages: a call awaiting a
\* fetch returns in the end, and every pass of the loop up to the next fetch
\* adds to the visited set one url that was not in it.
C33_GetUrlsTerminates ==
    /\ \A c \in Calls : (cpc[c] = "fetching") ~> (cpc[c] = "done")
    /\ [][\A c \in Calls :
            (cpc'[c] = "fetching" /\ <<cpc[c], cur[c]>> # <<cpc'[c], cur'[c]>>) =>
                /\ cur'[c] \notin (IF cpc[c] = "fetching" THEN seen_urls ELSE {})
                /\ seen_urls' = (IF cpc[c] = "fetching" THEN seen_urls ELSE {})
                                    \cup {cur'[c]}]_vars

\* C33 witness: a call returned because nothing was pending, short of
\* max_pages, on a site whose seed links to itself, after extracting every
\* page it visited.
C33_ReturnedFromCycle ==
    \E c \in Calls :
        /\ cpc[c] = "done"
        /\ to_visit[c] = {}
        /\ Cardinality(ret[c]) < max_pages[c]
        /\ start_url[c] \in graph[start_url[c]]
        /\ extracted[c] = ret[c]

(***************************************************************************)
(* Claims about the start of a search                                      *)
(***************************************************************************)
\* C34: two start_search requests never get the same search_id, and the
\* state of a search is initialised once: init_search never writes over a
\* state another search has stored.
C34_SearchIdsDistinct ==
    /\ \A r \in Requests : \A q \in Requests \ {r} :
            (req[r].pc # "none" /\ req[q].pc # "none") =>
                req[r].search_id # req[q].search_id
    /\ \A r \in Requests : req[r].found \in {"none", "absent"}

\* C35: once the route has returned a search_id, a lookup of the state of
\* that id finds it.
C35_StartedSearchIsFound ==
    \A r \in Requests : req[r].lookup # "not_found"

(***************************************************************************)
(* Claims about update_state                                               *)
(***************************************************************************)
\* the keyword arguments the calls of update_state are given
UpdateKwargs == {[current_status |-> "searching"], [processed_urls |-> 1]}

\* C36: update_state on a stored state returns, sets the named fields and
\* leaves every other field but last_update as the stored snapshot has it;
\* on an absent id it stores nothing.
C36_UpdateKeepsOtherFields ==
    [][\A id \in SearchIds : \A kwargs \in UpdateKwargs :
            update_state(id, kwargs) =>
                IF Present(id)
                THEN /\ outcome' = "returned"
                     /\ id \in DOMAIN state_store'
                     /\ \A k \in DOMAIN kwargs : state_store'[id][k] = kwargs[k]
                     /\ \A k \in SearchStateFields \ (DOMAIN kwargs \cup {"last_update"}) :
                            state_store'[id][k] = state_store[id][k]
                ELSE state_store' = state_store]_vars

(***************************************************************************)
(* Claims about the keys of the cache                                      *)
(***************************************************************************)
\* C37: two different (url, search_term) pairs never have the same key, so
\* get_result for a pair returns a result only when one was stored for that
\* pair, and then the one stored last for it.
C37_KeysInjective ==
    /\ \A p \in DOMAIN kc.stored : \A q \in DOMAIN kc.stored :
            p # q => make_key(p[1], p[2]) # make_key(q[1], q[2])
    /\ Truthy(kc.answer) =>
            /\ kc.asked \in DOMAIN kc.stored
            /\ kc.answer = kc.stored[kc.asked]

(***************************************************************************)
(* Claims about the registry of the progress streams                       *)
(***************************************************************************)
\* the sockets whose handle_connection loop runs for search_id
Running(search_id) ==
    {ws \in Sockets :
        /\ conn[ws].search_id = search_id
        /\ conn[ws].pc \in {"get_state", "send_state", "send_error", "sleep"}}

\* C38: under every interleaving of handle_connection, close_all_connections
\* and broadcast_to_search the entry of a search_id holds exactly the sockets
\* whose loop runs, no entry is empty, the finally of a handler never raises,
\* and no loop over an entry is ended by a change of the entry.
C38_RegistryConsistent ==
    /\ \A id \in SearchIds :
            Running(id) = (IF id \in DOMAIN active_connections
                           THEN active_connections[id] ELSE {})
    /\ \A id \in DOMAIN active_connections : active_connections[id] # {}
    /\ \A ws \in Sockets : conn[ws].pc # "raised"
    /\ bc.raised = "none"

====
